---- MODULE Spec2Model ----
(***************************************************************************)
(* WikipediaPathFinder (script.py): URL normalisation, the rate-limited,   *)
(* cached fetcher (get_page_content / _rate_limit_request) and the         *)
(* breadth-first path search (find_path / find_bidirectional_path).        *)
(*                                                                         *)
(* Strings are sequences of one-character strings.  Time is counted in     *)
(* ticks; Second ticks make one second.  The clock `now` is the latest     *)
(* instant the program has observed: it moves when time.time() is read and *)
(* when time.sleep() returns.                                              *)
(***************************************************************************)
EXTENDS Integers, Sequences, FiniteSets, TLC

----------------------------------------------------------------------------
(* Bounds of the model *)

Second == 2        \* ticks per second (resolution of the clock)
MaxStep == 1       \* largest advance of the clock seen by one time.time()
MaxTime == 3       \* time.time() advances the clock only up to here
MaxRate == 2       \* rate_limit ranges over 1..MaxRate
MaxCalls == 4      \* calls issued by the sequential driver
NThreads == 2      \* caller threads of the concurrent driver
MaxConcCalls == 3  \* calls issued by the concurrent driver
MaxDepth == 2      \* max_depth ranges over 0..MaxDepth
MaxLinks == 2      \* links extracted from one page
MaxLen == 3        \* length of the strings handed to normalize_url
SiteDepth == 3     \* max_depth of the searches over the five-page site

----------------------------------------------------------------------------
(* Generic helpers *)

Min(a, b) == IF a < b THEN a ELSE b
Max(a, b) == IF a > b THEN a ELSE b

\* s.find(c, start) with 1-based positions; 0 when absent
Find(s, c, start) ==
  LET hits == {i \in start..Len(s) : s[i] = c}
  IN IF hits = {} THEN 0 ELSE CHOOSE i \in hits : \A j \in hits : i <= j

\* s.rfind(c); 0 when absent
RFind(s, c) ==
  LET hits == {i \in 1..Len(s) : s[i] = c}
  IN IF hits = {} THEN 0 ELSE CHOOSE i \in hits : \A j \in hits : i >= j

Contains(s, c) == \E i \in 1..Len(s) : s[i] = c

\* s[from-1:] and s[:upto] in Python terms
From(s, from) == SubSeq(s, from, Len(s))
Upto(s, upto) == SubSeq(s, 1, upto)

\* F applied to the value of e, with e evaluated once
Let(e, F(_)) == CHOOSE r \in {F(x) : x \in {e}} : TRUE

Remove(s, bad) == SelectSeq(s, LAMBDA c : c \notin bad)

RECURSIVE LStrip(_, _)
LStrip(s, cs) == IF s # <<>> /\ Head(s) \in cs THEN LStrip(Tail(s), cs) ELSE s

RECURSIVE RStrip(_, _)
RStrip(s, cs) ==
  IF s # <<>> /\ s[Len(s)] \in cs THEN RStrip(Upto(s, Len(s) - 1), cs) ELSE s

----------------------------------------------------------------------------
(* urllib.parse as used by normalize_url *)

LowerSeq ==
  <<"a", "b", "c", "d", "e", "f", "g", "h", "i", "j", "k", "l", "m",
  "n", "o", "p", "q", "r", "s", "t", "u", "v", "w", "x", "y", "z">>
UpperSeq ==
  <<"A", "B", "C", "D", "E", "F", "G", "H", "I", "J", "K", "L", "M",
  "N", "O", "P", "Q", "R", "S", "T", "U", "V", "W", "X", "Y", "Z">>
Lowers == {LowerSeq[i] : i \in 1..26}
Uppers == {UpperSeq[i] : i \in 1..26}
\* str.lower() on one ASCII character
lower(c) ==
  IF c \in Uppers THEN LowerSeq[CHOOSE i \in 1..26 : UpperSeq[i] = c] ELSE c
Alpha == Lowers \cup Uppers
scheme_chars == Alpha \cup {"0", "1", "+", "-", "."}
WhatwgC0ControlOrSpace == {" ", "\t", "\n", "\r"}
UnsafeUrlBytesToRemove == {"\t", "\r", "\n"}
uses_params == {<<>>, <<"h", "t", "t", "p">>, <<"f", "t", "p">>}

Lowered(s) == [i \in 1..Len(s) |-> lower(s[i])]

\* _splitnetloc(url, 2): the netloc ends at the first of "/", "?", "#"
NetlocEnd(url) ==
  LET ds == {i \in 3..Len(url) : url[i] \in {"/", "?", "#"}}
  IN IF ds = {} THEN Len(url) + 1 ELSE CHOOSE i \in ds : \A j \in ds : i <= j

splitnetloc(url, delim) ==
  [netloc |-> SubSeq(url, 3, delim - 1), rest |-> From(url, delim)]

\* urlsplit: leading blanks stripped, tab and newline characters removed
Cleaned(raw) ==
  Remove(LStrip(raw, WhatwgC0ControlOrSpace), UnsafeUrlBytesToRemove)

\* urlsplit: a scheme is a letter followed by scheme characters before the
\* first ":"; i is the position of that ":" (0 when absent)
HasScheme(url, i) ==
  /\ i > 1
  /\ url[1] \in Alpha
  /\ \A k \in 1..(i - 1) : url[k] \in scheme_chars

SplitScheme(url, i) ==
  IF HasScheme(url, i)
  THEN [scheme |-> Lowered(Upto(url, i - 1)), rest |-> From(url, i + 1)]
  ELSE [scheme |-> << >>, rest |-> url]

\* urlsplit: the netloc follows a leading "//"
SplitNetloc(url) ==
  IF Len(url) >= 2 /\ url[1] = "/" /\ url[2] = "/"
  THEN splitnetloc(url, NetlocEnd(url))
  ELSE [netloc |-> << >>, rest |-> url]

\* url.split(c, 1) at position i of c (0 when absent)
SplitAt(url, i) ==
  IF i > 0 THEN [head |-> Upto(url, i - 1), tail |-> From(url, i + 1)]
  ELSE [head |-> url, tail |-> << >>]

SplitFirst(url, c) == SplitAt(url, Find(url, c, 1))

\* urlsplit: fragment first, then query
SplitPath(scheme, netloc, f) ==
  [scheme |-> scheme, netloc |-> netloc,
   path |-> SplitFirst(f.head, "?").head,
   query |-> SplitFirst(f.head, "?").tail,
   fragment |-> f.tail]

SplitRest(scheme, n) ==
  Let(SplitFirst(n.rest, "#"), LAMBDA f : SplitPath(scheme, n.netloc, f))

SplitAll(s) == Let(SplitNetloc(s.rest), LAMBDA n : SplitRest(s.scheme, n))

SplitCleaned(url) ==
  Let(SplitScheme(url, Find(url, ":", 1)), LAMBDA s : SplitAll(s))

urlsplit(raw) == Let(Cleaned(raw), LAMBDA url : SplitCleaned(url))

\* _splitparams(url), the part kept as the path
ParamsAt(url) ==
  IF Contains(url, "/") THEN Find(url, ";", RFind(url, "/"))
  ELSE Find(url, ";", 1)

splitparams(url) == SplitAt(url, ParamsAt(url)).head

\* urlparse: the params of the last path segment are split off the path
SplitParams(s) ==
  IF s.scheme \in uses_params /\ Contains(s.path, ";")
  THEN [s EXCEPT !.path = splitparams(s.path)]
  ELSE s

urlparse(raw) == Let(urlsplit(raw), LAMBDA s : SplitParams(s))

\* f"{parsed.scheme}://{parsed.netloc}{parsed.path}".rstrip('/')
Formatted(parsed) ==
  parsed.scheme \o <<":", "/", "/">> \o parsed.netloc \o parsed.path

Stripped(formatted) == RStrip(formatted, {"/"})

normalize_url(url) ==
  Let(Let(urlparse(url), LAMBDA parsed : Formatted(parsed)),
      LAMBDA normalized : Stripped(normalized))

----------------------------------------------------------------------------
(* The site and the values get_page_content returns *)

Threads == 1..NThreads

\* "http://w/<c>" followed by a suffix
Article(c, suffix) ==
  <<"h", "t", "t", "p", ":", "/", "/", "w", "/", c>> \o suffix

\* response.text: an empty body, or a page with the links
\* extract_wikipedia_links finds in it
EmptyDoc == [kind |-> "empty", links |-> {}]
Html(ls) == [kind |-> "html", links |-> ls]
NoneValue == [kind |-> "None", links |-> {}]

\* what find_path returns: None, or a list of URLs
NoneResult == [kind |-> "None", path |-> << >>]
PathResult(p) == [kind |-> "path", path |-> p]

\* URLs requested by the fetcher's drivers
FetchURLs == {Article("a", <<>>), Article("b", <<>>),
              Article("c", <<>>), Article("d", <<>>)}

\* URLs requested by concurrent callers
SharedURLs == {Article("a", <<>>), Article("b", <<>>)}

\* the site served to the drivers
DriverWeb ==
  [u \in FetchURLs |->
     IF u = Article("a", <<>>) THEN EmptyDoc ELSE Html({Article("a", <<>>)})]

\* hrefs a page of the searched site can carry, already joined to the base
RawLinks == {Article("a", <<>>), Article("b", <<"/">>),
             Article("c", <<"?", "q">>)}

\* bodies a page of the searched site can have
SiteDocs ==
  {EmptyDoc} \cup {Html(ls) : ls \in {x \in SUBSET RawLinks :
                                       Cardinality(x) <= MaxLinks}}

----------------------------------------------------------------------------
VARIABLES
  rate_limit,     \* self.rate_limit
  cache,          \* self.cache: requested URL -> response text
  semaphore,      \* free slots of self.semaphore
  request_times,  \* self.request_times
  now,            \* the clock
  web,            \* the site: URL -> body, fixed once a URL has been served
  pc,             \* per thread: position inside get_page_content
  url,            \* per thread: argument of get_page_content
  current_time,   \* per thread: local of _rate_limit_request
  wake,           \* per thread: instant at which time.sleep may return
  ret,            \* per thread: value returned by get_page_content
  how,            \* per thread: "hit", "ok", "fail" or "raised"
  started,        \* network requests so far: [url, at, by]
  stamps,         \* every value appended to request_times, in order
  sleeps,         \* for every time.sleep: how many requests had started
  asked,          \* URLs passed to get_page_content by the drivers
  callLog,        \* calls completed for the drivers: [url, how, ret]
  url1, url2,     \* arguments of find_bidirectional_path
  max_depth,      \* its depth bound, passed on to find_path
  bpc,            \* position inside find_bidirectional_path
  path1to2,       \* local of find_bidirectional_path
  path2to1,       \* local of find_bidirectional_path
  biResult,       \* value returned by find_bidirectional_path
  fpc,            \* position inside find_path
  args,           \* arguments of the running find_path: [start, target]
  start_url,      \* local of find_path
  target_url,     \* local of find_path
  visited,        \* local of find_path
  queue,          \* local of find_path: entries [url, path]
  current_url,    \* local of find_path
  path,           \* local of find_path
  links,          \* links of the current page the for loop has yet to take
  fresult,        \* value returned by find_path
  atEntry,        \* the fetcher as find_path found it when called
  fetches,        \* get_page_content calls made by the running find_path
  enqueued,       \* every entry put into queue by the running find_path
  dequeued,       \* every entry taken from queue by the running find_path
  searches,       \* find_path calls completed: [start, target, result]
  fnpc,           \* the helper method under call, "off" when none is
  fnarg,          \* its arguments
  fnout           \* the values it has returned, in order

fetcherVars == <<rate_limit, cache, semaphore, request_times, now, web>>
threadVars == <<pc, url, current_time, wake, ret, how>>
logVars == <<started, stamps, sleeps>>
driverVars == <<asked, callLog>>
biVars == <<url1, url2, max_depth, bpc, path1to2, path2to1, biResult>>
frameVars == <<fpc, args, start_url, target_url, visited, queue, current_url,
               path, links, fresult>>
searchLogVars == <<atEntry, fetches, enqueued, dequeued, searches>>
bfsVars == <<biVars, frameVars, searchLogVars>>
helperVars == <<fnpc, fnarg, fnout>>
vars == <<fetcherVars, threadVars, logVars, driverVars, bfsVars, helperVars>>

\* __init__
InitFetcher ==
  /\ rate_limit \in 1..MaxRate
  /\ cache = << >>
  /\ semaphore = rate_limit
  /\ request_times = << >>
  /\ now = 0
  /\ pc = [t \in Threads |-> "idle"]
  /\ url = [t \in Threads |-> << >>]
  /\ current_time = [t \in Threads |-> 0]
  /\ wake = [t \in Threads |-> 0]
  /\ ret = [t \in Threads |-> NoneValue]
  /\ how = [t \in Threads |-> "none"]
  /\ started = << >>
  /\ stamps = << >>
  /\ sleeps = << >>

----------------------------------------------------------------------------
(* get_page_content(url), thread t, one action per step *)

\* a lookup that never hits
CacheHit_Never(u) == FALSE

\* line 37: if url in self.cache
CacheHit(u) == u \in DOMAIN cache

\* line 37-38: the cache lookup on the requested string
CacheLookup(t) ==
  /\ pc[t] = "lookup"
  /\ IF CacheHit(url[t])
     THEN /\ ret' = [ret EXCEPT ![t] = cache[url[t]]]
          /\ how' = [how EXCEPT ![t] = "hit"]
          /\ pc' = [pc EXCEPT ![t] = "returned"]
     ELSE /\ pc' = [pc EXCEPT ![t] = "acquire"]
          /\ UNCHANGED <<ret, how>>
  /\ UNCHANGED <<fetcherVars, url, current_time, wake, logVars, driverVars,
                 bfsVars,
                 helperVars>>

\* line 40: with self.semaphore (blocks while no slot is free)
Acquire(t) ==
  /\ pc[t] = "acquire"
  /\ semaphore > 0
  /\ semaphore' = semaphore - 1
  /\ pc' = [pc EXCEPT ![t] = "rl_time"]
  /\ UNCHANGED <<rate_limit, cache, request_times, now, web, url,
                 current_time, wake, ret, how, logVars, driverVars, bfsVars,
                 helperVars>>

\* line 23: current_time = time.time()
ReadTime(t) ==
  /\ pc[t] = "rl_time"
  /\ \E n \in now..Max(now, Min(now + MaxStep, MaxTime)) :
       /\ now' = n
       /\ current_time' = [current_time EXCEPT ![t] = n]
  /\ pc' = [pc EXCEPT ![t] = "rl_while"]
  /\ UNCHANGED <<rate_limit, cache, semaphore, request_times, web, url, wake,
                 ret, how, logVars, driverVars, bfsVars,
                 helperVars>>

\* leaving the with block by an exception: the slot is released
Raise(t) ==
  /\ semaphore' = semaphore + 1
  /\ ret' = [ret EXCEPT ![t] = NoneValue]
  /\ how' = [how EXCEPT ![t] = "raised"]
  /\ pc' = [pc EXCEPT ![t] = "raised"]

\* line 25: while self.request_times ...
WhileTest(t) ==
  /\ pc[t] = "rl_while"
  /\ pc' = [pc EXCEPT ![t] =
              IF request_times # << >> THEN "rl_head" ELSE "rl_len"]
  /\ UNCHANGED <<fetcherVars, url, current_time, wake, ret, how, logVars,
                 driverVars, bfsVars,
                 helperVars>>

\* line 25: ... and current_time - self.request_times[0] > 1
\* (IndexError when another thread emptied the deque since the test)
WhileHead(t) ==
  /\ pc[t] = "rl_head"
  /\ IF request_times = << >>
     THEN Raise(t)
     ELSE /\ pc' = [pc EXCEPT ![t] =
                      IF current_time[t] - Head(request_times) > Second
                      THEN "rl_pop" ELSE "rl_len"]
          /\ UNCHANGED <<semaphore, ret, how>>
  /\ UNCHANGED <<rate_limit, cache, request_times, now, web, url,
                 current_time, wake, logVars, driverVars, bfsVars,
                 helperVars>>

\* line 26: self.request_times.popleft()
PopLeft(t) ==
  /\ pc[t] = "rl_pop"
  /\ IF request_times = << >>
     THEN Raise(t) /\ UNCHANGED request_times
     ELSE /\ request_times' = Tail(request_times)
          /\ pc' = [pc EXCEPT ![t] = "rl_while"]
          /\ UNCHANGED <<semaphore, ret, how>>
  /\ UNCHANGED <<rate_limit, cache, now, web, url, current_time, wake,
                 logVars, driverVars, bfsVars,
                 helperVars>>

\* the window test with > in place of >=
WindowFull_Strict == Len(request_times) > rate_limit

\* line 28: len(self.request_times) >= self.rate_limit
WindowFull == Len(request_times) >= rate_limit

\* line 28: if the window is full, look at the oldest entry
LenTest(t) ==
  /\ pc[t] = "rl_len"
  /\ pc' = [pc EXCEPT ![t] =
              IF WindowFull THEN "rl_oldest"
              ELSE "rl_append"]
  /\ UNCHANGED <<fetcherVars, url, current_time, wake, ret, how, logVars,
                 driverVars, bfsVars,
                 helperVars>>

\* line 29: sleep_time = 1 - (current_time - self.request_times[0])
sleep_time(t) == Second - (current_time[t] - Head(request_times))

\* line 29-30: compute sleep_time, decide whether to sleep
Oldest(t) ==
  /\ pc[t] = "rl_oldest"
  /\ IF request_times = << >>
     THEN Raise(t) /\ UNCHANGED wake
     ELSE /\ IF sleep_time(t) > 0
             THEN /\ wake' = [wake EXCEPT ![t] = now + sleep_time(t)]
                  /\ pc' = [pc EXCEPT ![t] = "rl_sleep"]
             ELSE /\ pc' = [pc EXCEPT ![t] = "rl_append"]
                  /\ UNCHANGED wake
          /\ UNCHANGED <<semaphore, ret, how>>
  /\ UNCHANGED <<rate_limit, cache, request_times, now, web, url,
                 current_time, logVars, driverVars, bfsVars,
                 helperVars>>

\* line 31: time.sleep(sleep_time) returns once sleep_time has passed
Sleep(t) ==
  /\ pc[t] = "rl_sleep"
  /\ now' = Max(now, wake[t])
  /\ sleeps' = Append(sleeps, Len(started))
  /\ pc' = [pc EXCEPT ![t] = "rl_append"]
  /\ UNCHANGED <<rate_limit, cache, semaphore, request_times, web, url,
                 current_time, wake, ret, how, started, stamps, driverVars,
                 bfsVars,
                 helperVars>>

\* line 33: self.request_times.append(current_time)
AppendTime(t) ==
  /\ pc[t] = "rl_append"
  /\ request_times' = Append(request_times, current_time[t])
  /\ stamps' = Append(stamps, current_time[t])
  /\ pc' = [pc EXCEPT ![t] = "get"]
  /\ UNCHANGED <<rate_limit, cache, semaphore, now, web, url, current_time,
                 wake, ret, how, started, sleeps, driverVars, bfsVars,
                 helperVars>>

\* line 44: self.session.get(url, timeout=10) goes out
Request(t) ==
  /\ pc[t] = "get"
  /\ started' = Append(started, [url |-> url[t], at |-> now, by |-> t])
  /\ pc' = [pc EXCEPT ![t] = "response"]
  /\ UNCHANGED <<fetcherVars, url, current_time, wake, ret, how, stamps,
                 sleeps, driverVars, bfsVars,
                 helperVars>>

\* line 45-48: a success status; the body is cached and returned
ResponseOk(t) ==
  /\ pc[t] = "response"
  /\ \E text \in (IF url[t] \in DOMAIN web THEN {web[url[t]]} ELSE SiteDocs) :
       /\ web' = IF url[t] \in DOMAIN web THEN web ELSE web @@ (url[t] :> text)
       /\ cache' = [u \in DOMAIN cache \cup {url[t]} |->
                      IF u = url[t] THEN text ELSE cache[u]]
       /\ ret' = [ret EXCEPT ![t] = text]
  /\ how' = [how EXCEPT ![t] = "ok"]
  /\ semaphore' = semaphore + 1
  /\ pc' = [pc EXCEPT ![t] = "returned"]
  /\ UNCHANGED <<rate_limit, request_times, now, url, current_time, wake,
                 logVars, driverVars, bfsVars,
                 helperVars>>

\* a failure path that stores None in the cache
ResponseFail_CachesNone(t) ==
  /\ pc[t] = "response"
  /\ cache' = [u \in DOMAIN cache \cup {url[t]} |->
                 IF u = url[t] THEN NoneValue ELSE cache[u]]
  /\ ret' = [ret EXCEPT ![t] = NoneValue]
  /\ how' = [how EXCEPT ![t] = "fail"]
  /\ semaphore' = semaphore + 1
  /\ pc' = [pc EXCEPT ![t] = "returned"]
  /\ UNCHANGED <<rate_limit, request_times, now, web, url, current_time,
                 wake, logVars, driverVars, bfsVars,
                 helperVars>>

\* a failure path that keeps the slot
ResponseFail_KeepsSlot(t) ==
  /\ pc[t] = "response"
  /\ ret' = [ret EXCEPT ![t] = NoneValue]
  /\ how' = [how EXCEPT ![t] = "fail"]
  /\ pc' = [pc EXCEPT ![t] = "returned"]
  /\ UNCHANGED <<fetcherVars, url, current_time, wake, logVars, driverVars,
                 bfsVars,
                 helperVars>>

\* line 50-52: requests.RequestException (transport error, timeout,
\* raise_for_status); None is returned
ResponseFail(t) ==
  /\ pc[t] = "response"
  /\ ret' = [ret EXCEPT ![t] = NoneValue]
  /\ how' = [how EXCEPT ![t] = "fail"]
  /\ semaphore' = semaphore + 1
  /\ pc' = [pc EXCEPT ![t] = "returned"]
  /\ UNCHANGED <<rate_limit, cache, request_times, now, web, url,
                 current_time, wake, logVars, driverVars, bfsVars,
                 helperVars>>

get_page_content(t) ==
  \/ CacheLookup(t)
  \/ Acquire(t)
  \/ ReadTime(t)
  \/ WhileTest(t)
  \/ WhileHead(t)
  \/ PopLeft(t)
  \/ LenTest(t)
  \/ Oldest(t)
  \/ Sleep(t)
  \/ AppendTime(t)
  \/ Request(t)
  \/ ResponseOk(t)
  \/ ResponseFail(t)

----------------------------------------------------------------------------
(* Callers of get_page_content other than find_path *)

\* a caller passes a URL to get_page_content
DriverCall(t, urls, limit) ==
  /\ pc[t] = "idle"
  /\ Len(asked) < limit
  /\ \E u \in urls :
       /\ url' = [url EXCEPT ![t] = u]
       /\ asked' = Append(asked, u)
  /\ pc' = [pc EXCEPT ![t] = "lookup"]
  /\ UNCHANGED <<fetcherVars, current_time, wake, ret, how, logVars, callLog,
                 bfsVars,
                 helperVars>>

\* the call is over: the caller has the value, or catches the exception
DriverReturn(t) ==
  /\ pc[t] \in {"returned", "raised"}
  /\ callLog' = Append(callLog, [url |-> url[t], how |-> how[t],
                                 ret |-> ret[t], by |-> t])
  /\ pc' = [pc EXCEPT ![t] = "idle"]
  /\ UNCHANGED <<fetcherVars, url, current_time, wake, ret, how, logVars,
                 asked, bfsVars,
                 helperVars>>

\* find_bidirectional_path and find_path are not running
NoSearch ==
  /\ url1 = << >> /\ url2 = << >> /\ max_depth = 0
  /\ bpc = "off"
  /\ path1to2 = NoneResult /\ path2to1 = NoneResult
  /\ biResult = << >>
  /\ fpc = "off"
  /\ args = << >>
  /\ start_url = << >> /\ target_url = << >>
  /\ visited = {}
  /\ queue = << >>
  /\ current_url = << >>
  /\ path = << >>
  /\ links = {}
  /\ fresult = NoneResult
  /\ atEntry = << >>
  /\ fetches = 0
  /\ enqueued = << >>
  /\ dequeued = << >>
  /\ searches = << >>

\* no helper method is under call
NoHelper ==
  /\ fnpc = "off"
  /\ fnarg = << >>
  /\ fnout = << >>

InitDrivers ==
  /\ InitFetcher
  /\ NoHelper
  /\ web = DriverWeb
  /\ asked = << >>
  /\ callLog = << >>
  /\ NoSearch

\* one caller issuing its calls back to back
NextSeq ==
  \/ DriverCall(1, FetchURLs, MaxCalls)
  \/ get_page_content(1)
  \/ DriverReturn(1)

SpecSeq == InitDrivers /\ [][NextSeq]_vars

\* several caller threads
NextConc ==
  \E t \in Threads :
    \/ DriverCall(t, SharedURLs, MaxConcCalls)
    \/ get_page_content(t)
    \/ DriverReturn(t)

SpecConc == InitDrivers /\ [][NextConc]_vars

----------------------------------------------------------------------------
(* find_path and find_bidirectional_path, run by thread 1 *)

\* URLs handed to find_bidirectional_path
StartURLs == {Article("a", <<>>), Article("a", <<"/">>)}
TargetURLs == {Article("a", <<>>), Article("a", <<"/">>),
               Article("c", <<"?", "q">>)}

\* "if not content": None and the empty string are falsy
Falsy(content) == content.kind \in {"None", "empty"}

\* extract_wikipedia_links(content, base_url): the links of the page
extract_wikipedia_links(content) == content.links

\* the fetcher as a find_path call finds it
Snapshot == [cache |-> cache, request_times |-> request_times,
             started |-> Len(started)]

\* no early return for equal endpoints
SamePage_Never(s, g) == FALSE

\* line 150: start_url == target_url
SamePage(s, g) == s = g

\* the depth test with >= in place of >
TooDeep_AtBound(p) == Len(p) >= max_depth

\* no depth test on dequeued entries
TooDeep_Never(p) == FALSE

\* line 160: len(path) > max_depth
TooDeep(p) == Len(p) > max_depth

\* the path to the current page returned without the target
Found_WithoutTarget(p, normalized_link) == PathResult(p)

\* line 175: return path + [normalized_link]
Found(p, normalized_link) == PathResult(Append(p, normalized_link))

\* the depth test with <= in place of <
MayEnqueue_Leq(normalized_link) ==
  normalized_link \notin visited /\ Len(path) <= max_depth

\* the enqueue test without the visited set
MayEnqueue_Revisit(normalized_link) == Len(path) < max_depth

\* line 177: normalized_link not in visited and len(path) < max_depth
MayEnqueue(normalized_link) ==
  normalized_link \notin visited /\ Len(path) < max_depth

\* a new entry put at the head of the queue
Enqueue_AtHead(q, entry) == <<entry>> \o q

\* line 179: queue.append(...); line 158 takes entries from the other end
Enqueue(q, entry) == Append(q, entry)

\* an empty list for an exhausted search
NotFound_EmptyList == PathResult(<< >>)

\* line 181: return None
NotFound == NoneResult

\* the second search called with the arguments of the first
SecondArgs_NotSwapped == [start |-> url1, target |-> url2]

\* line 189: self.find_path(url2, url1, max_depth)
SecondArgs == [start |-> url2, target |-> url1]

\* line 185-186: the first search is called
BiCallFirst ==
  /\ bpc = "first"
  /\ args' = [start |-> url1, target |-> url2]
  /\ fpc' = "init"
  /\ bpc' = "in_first"
  /\ UNCHANGED <<fetcherVars, threadVars, logVars, driverVars, url1, url2,
                 max_depth, path1to2, path2to1, biResult, start_url,
                 target_url, visited, queue, current_url, path, links,
                 fresult, searchLogVars,
                 helperVars>>

\* line 186-189: the first search has returned, the second is called
BiCallSecond ==
  /\ bpc = "in_first"
  /\ fpc = "done"
  /\ path1to2' = fresult
  /\ searches' = Append(searches, [start |-> args.start,
                                   target |-> args.target,
                                   result |-> fresult])
  /\ args' = SecondArgs
  /\ fpc' = "init"
  /\ bpc' = "in_second"
  /\ UNCHANGED <<fetcherVars, threadVars, logVars, driverVars, url1, url2,
                 max_depth, path2to1, biResult, start_url, target_url,
                 visited, queue, current_url, path, links, fresult, atEntry,
                 fetches, enqueued, dequeued,
                 helperVars>>

\* line 189-191: the second search has returned, the pair is returned
BiReturn ==
  /\ bpc = "in_second"
  /\ fpc = "done"
  /\ path2to1' = fresult
  /\ searches' = Append(searches, [start |-> args.start,
                                   target |-> args.target,
                                   result |-> fresult])
  /\ biResult' = <<path1to2, fresult>>
  /\ fpc' = "off"
  /\ bpc' = "done"
  /\ UNCHANGED <<fetcherVars, threadVars, logVars, driverVars, url1, url2,
                 max_depth, path1to2, args, start_url, target_url, visited,
                 queue, current_url, path, links, fresult, atEntry, fetches,
                 enqueued, dequeued,
                 helperVars>>

\* line 147-155: normalise the endpoints, return at once when they are
\* equal, otherwise seed visited and queue
FindPathInit ==
  /\ fpc = "init"
  /\ start_url' = normalize_url(args.start)
  /\ target_url' = normalize_url(args.target)
  /\ IF SamePage(start_url', target_url')
     THEN /\ fresult' = PathResult(<<start_url'>>)
          /\ fpc' = "done"
          /\ visited' = {}
          /\ queue' = << >>
          /\ enqueued' = << >>
     ELSE /\ visited' = {start_url'}
          /\ queue' = <<[url |-> start_url', path |-> <<start_url'>>]>>
          /\ enqueued' = queue'
          /\ fpc' = "loop"
          /\ UNCHANGED fresult
  /\ atEntry' = Snapshot
  /\ fetches' = 0
  /\ dequeued' = << >>
  /\ current_url' = << >>
  /\ path' = << >>
  /\ links' = {}
  /\ UNCHANGED <<fetcherVars, threadVars, logVars, driverVars, biVars, args,
                 searches,
                 helperVars>>

\* line 157-165: leave the loop when the queue is empty; otherwise take the
\* head, skip it when it is too deep, else fetch its page
FindPathLoop ==
  /\ fpc = "loop"
  /\ IF queue = << >>
     THEN /\ fresult' = NotFound
          /\ fpc' = "done"
          /\ UNCHANGED <<queue, current_url, path, dequeued, fetches, pc, url>>
     ELSE /\ current_url' = Head(queue).url
          /\ path' = Head(queue).path
          /\ queue' = Tail(queue)
          /\ dequeued' = Append(dequeued, Head(queue))
          /\ IF TooDeep(Head(queue).path)
             THEN UNCHANGED <<fpc, fetches, pc, url>>
             ELSE /\ url' = [url EXCEPT ![1] = Head(queue).url]
                  /\ pc' = [pc EXCEPT ![1] = "lookup"]
                  /\ fetches' = fetches + 1
                  /\ fpc' = "fetch"
          /\ UNCHANGED fresult
  /\ UNCHANGED <<fetcherVars, current_time, wake, ret, how, logVars,
                 driverVars, biVars, args, start_url, target_url, visited,
                 links, atEntry, enqueued, searches,
                 helperVars>>

\* a search that gives up at the first page without content
FindPathContent_Abort ==
  /\ fpc = "fetch"
  /\ pc[1] = "returned"
  /\ pc' = [pc EXCEPT ![1] = "idle"]
  /\ IF Falsy(ret[1])
     THEN /\ fresult' = NotFound
          /\ fpc' = "done"
          /\ UNCHANGED links
     ELSE /\ links' = extract_wikipedia_links(ret[1])
          /\ fpc' = "links"
          /\ UNCHANGED fresult
  /\ UNCHANGED <<fetcherVars, url, current_time, wake, ret, how, logVars,
                 driverVars, biVars, args, start_url, target_url, visited,
                 queue, current_url, path, searchLogVars, helperVars>>

\* line 165-169: get_page_content has returned; skip the node when there is
\* no content, else extract its links
FindPathContent ==
  /\ fpc = "fetch"
  /\ pc[1] = "returned"
  /\ pc' = [pc EXCEPT ![1] = "idle"]
  /\ IF Falsy(ret[1])
     THEN /\ fpc' = "loop"
          /\ UNCHANGED links
     ELSE /\ links' = extract_wikipedia_links(ret[1])
          /\ fpc' = "links"
  /\ UNCHANGED <<fetcherVars, url, current_time, wake, ret, how, logVars,
                 driverVars, biVars, args, start_url, target_url, visited,
                 queue, current_url, path, fresult, searchLogVars,
                 helperVars>>

\* line 171-179: one round of "for link in links" (a set: any order), or
\* the end of the for loop
FindPathLink ==
  /\ fpc = "links"
  /\ IF links = {}
     THEN /\ fpc' = "loop"
          /\ UNCHANGED <<links, fresult, visited, queue, enqueued>>
     ELSE \E link \in links : \E normalized_link \in {normalize_url(link)} :
            LET entry == [url |-> normalized_link,
                          path |-> Append(path, normalized_link)]
            IN /\ links' = links \ {link}
               /\ IF normalized_link = target_url
                  THEN /\ fresult' = Found(path, normalized_link)
                       /\ fpc' = "done"
                       /\ UNCHANGED <<visited, queue, enqueued>>
                  ELSE /\ IF MayEnqueue(normalized_link)
                          THEN /\ visited' = visited \cup {normalized_link}
                               /\ queue' = Enqueue(queue, entry)
                               /\ enqueued' = Append(enqueued, entry)
                          ELSE UNCHANGED <<visited, queue, enqueued>>
                       /\ UNCHANGED <<fpc, fresult>>
  /\ UNCHANGED <<fetcherVars, threadVars, logVars, driverVars, biVars, args,
                 start_url, target_url, current_url, path, atEntry, fetches,
                 dequeued, searches,
                 helperVars>>

find_path ==
  \/ FindPathInit
  \/ FindPathLoop
  \/ FindPathContent
  \/ FindPathLink

find_bidirectional_path ==
  \/ BiCallFirst
  \/ BiCallSecond
  \/ BiReturn

\* a fresh finder, about to run find_bidirectional_path(url1, url2, max_depth)
Init ==
  /\ InitFetcher
  /\ NoHelper
  /\ web = << >>
  /\ asked = << >>
  /\ callLog = << >>
  /\ url1 \in StartURLs
  /\ url2 \in TargetURLs
  /\ max_depth \in 0..MaxDepth
  /\ bpc = "first"
  /\ path1to2 = NoneResult /\ path2to1 = NoneResult
  /\ biResult = << >>
  /\ fpc = "off"
  /\ args = << >>
  /\ start_url = << >> /\ target_url = << >>
  /\ visited = {}
  /\ queue = << >>
  /\ current_url = << >>
  /\ path = << >>
  /\ links = {}
  /\ fresult = NoneResult
  /\ atEntry = << >>
  /\ fetches = 0
  /\ enqueued = << >>
  /\ dequeued = << >>
  /\ searches = << >>

Next ==
  \/ find_bidirectional_path
  \/ find_path
  \/ get_page_content(1)

Spec == Init /\ [][Next]_vars

\* the search is one thread of control: it always takes its next step
FairSpec == Spec /\ WF_vars(Next)

----------------------------------------------------------------------------
(* The search over a site whose pages are fixed from the start *)

Page(c) == Article(c, << >>)

\* the links each page of the five-page site may carry
SiteLinks(c) ==
  IF c = "a" THEN {Page("b"), Page("c")}
  ELSE IF c = "b" THEN {Page("d"), Page("e")}
  ELSE IF c = "c" THEN {Page("d"), Page("e")}
  ELSE IF c = "d" THEN {Page("e"), Page("a")}
  ELSE {Page("d"), Page("a")}

\* bodies of page c: a page with some of these links
Bodies(c) == {Html(ls) : ls \in SUBSET SiteLinks(c)}

\* every such site; page b may also come with an empty body
Sites ==
  {(Page("a") :> a) @@ (Page("b") :> b) @@ (Page("c") :> c) @@
   (Page("d") :> d) @@ (Page("e") :> e) :
     a \in Bodies("a"), b \in Bodies("b") \cup {EmptyDoc},
     c \in Bodies("c"), d \in Bodies("d"), e \in Bodies("e")}

\* a fresh finder, about to search the five-page site from a to e and back
InitSite ==
  /\ InitFetcher
  /\ NoHelper
  /\ web \in Sites
  /\ asked = << >>
  /\ callLog = << >>
  /\ url1 = Page("a")
  /\ url2 = Page("e")
  /\ max_depth = SiteDepth
  /\ bpc = "first"
  /\ path1to2 = NoneResult /\ path2to1 = NoneResult
  /\ biResult = << >>
  /\ fpc = "off"
  /\ args = << >>
  /\ start_url = << >> /\ target_url = << >>
  /\ visited = {}
  /\ queue = << >>
  /\ current_url = << >>
  /\ path = << >>
  /\ links = {}
  /\ fresult = NoneResult
  /\ atEntry = << >>
  /\ fetches = 0
  /\ enqueued = << >>
  /\ dequeued = << >>
  /\ searches = << >>

SpecSite == InitSite /\ [][Next]_vars

----------------------------------------------------------------------------
(* normalize_url called on arbitrary strings, and again on its result *)

\* characters with a role in urlparse, and one letter
UrlChars == {"h", ":", "/", "?", "#", ";"}

RECURSIVE StringsUpTo(_)
StringsUpTo(n) ==
  IF n = 0 THEN {<< >>}
  ELSE StringsUpTo(n - 1) \cup
       {Append(s, c) : s \in StringsUpTo(n - 1), c \in UrlChars}

\* every short string, and the URLs the fetcher and the search are given
NormalizeInputs ==
  StringsUpTo(MaxLen) \cup FetchURLs \cup RawLinks \cup
  {Article("a", <<";", "p", "/">>)}

\* the finder is idle; normalize_url is about to be called on a string
InitNormalize ==
  /\ InitFetcher
  /\ web = << >>
  /\ asked = << >>
  /\ callLog = << >>
  /\ NoSearch
  /\ fnpc = "normalize_url"
  /\ fnarg \in NormalizeInputs
  /\ fnout = << >>

\* normalize_url(u)
NormalizeCall ==
  /\ fnpc = "normalize_url"
  /\ fnout = << >>
  /\ fnout' = <<normalize_url(fnarg)>>
  /\ UNCHANGED <<fetcherVars, threadVars, logVars, driverVars, bfsVars, fnpc,
                 fnarg>>

\* normalize_url(normalize_url(u))
NormalizeAgain ==
  /\ fnpc = "normalize_url"
  /\ Len(fnout) = 1
  /\ fnout' = Append(fnout, normalize_url(fnout[1]))
  /\ UNCHANGED <<fetcherVars, threadVars, logVars, driverVars, bfsVars, fnpc,
                 fnarg>>

NextNormalize ==
  \/ NormalizeCall
  \/ NormalizeAgain

SpecNormalize == InitNormalize /\ [][NextNormalize]_vars

----------------------------------------------------------------------------
(* _is_valid_wikipedia_link called on hrefs of a page *)

\* s.startswith(p)
StartsWith(s, p) == Len(s) >= Len(p) /\ SubSeq(s, 1, Len(p)) = p

\* s.find(sub) with 1-based positions; 0 when absent
FindSub(s, sub) ==
  LET hits == {i \in 1..(Len(s) - Len(sub) + 1) :
                 SubSeq(s, i, i + Len(sub) - 1) = sub}
  IN IF hits = {} THEN 0 ELSE CHOOSE i \in hits : \A j \in hits : i <= j

\* sub in s
Occurs(sub, s) == FindSub(s, sub) > 0

\* s.split(sep)[-1]: what follows the last separator found left to right
RECURSIVE LastPiece(_, _)
LastPiece(s, sep) ==
  IF FindSub(s, sep) = 0 THEN s
  ELSE LastPiece(From(s, FindSub(s, sep) + Len(sep)), sep)

WikiPath == <<"/", "w", "i", "k", "i", "/">>

\* line 114-120; a character outside ASCII is written as its code point
excluded_prefixes ==
  {
   <<"F", "i", "l", "e", ":">>,
   <<"C", "a", "t", "e", "g", "o", "r", "y", ":">>,
   <<"T", "e", "m", "p", "l", "a", "t", "e", ":">>,
   <<"H", "e", "l", "p", ":">>,
   <<"S", "p", "e", "c", "i", "a", "l", ":">>,
   <<"U", "s", "e", "r", ":">>,
   <<"W", "i", "k", "i", "p", "e", "d", "i", "a", ":">>,
   <<"T", "a", "l", "k", ":">>,
   <<"U", "s", "e", "r", "_", "t", "a", "l", "k", ":">>,
   <<"W", "i", "k", "i", "p", "e", "d", "i", "a", "_", "t", "a", "l", "k",
     ":">>,
   <<"T", "e", "m", "p", "l", "a", "t", "e", "_", "t", "a", "l", "k", ":">>,
   <<"H", "e", "l", "p", "_", "t", "a", "l", "k", ":">>,
   <<"C", "a", "t", "e", "g", "o", "r", "y", "_", "t", "a", "l", "k", ":">>,
   <<"P", "o", "r", "t", "a", "l", ":">>,
   <<"U0424", "U0430", "U0439", "U043B", ":">>,
   <<"U041A", "U0430", "U0442", "U0435", "U0433", "U043E", "U0440", "U0438",
     "U044F", ":">>,
   <<"U0428", "U0430", "U0431", "U043B", "U043E", "U043D", ":">>,
   <<"U0421", "U043F", "U0440", "U0430", "U0432", "U043A", "U0430", ":">>,
   <<"U0423", "U0447", "U0430", "U0441", "U0442", "U043D", "U0438", "U043A",
     ":">>,
   <<"U041E", "U0431", "U0441", "U0443", "U0436", "U0434", "U0435", "U043D",
     "U0438", "U0435", ":">>,
   <<"U0421", "U043B", "U0443", "U0436", "U0435", "U0431", "U043D", "U0430",
     "U044F", ":">>,
   <<"U041F", "U043E", "U0440", "U0442", "U0430", "U043B", ":">>
  }

\* line 113-129: a link that starts with /wiki/
BareLinkValid(href) ==
  /\ ~Contains(href, "#")
  /\ \A prefix \in excluded_prefixes : ~StartsWith(href, WikiPath \o prefix)

\* line 108-137
RECURSIVE is_valid_wikipedia_link(_, _)
is_valid_wikipedia_link(href, wiki_domain) ==
  IF href = << >> THEN FALSE
  ELSE IF StartsWith(href, WikiPath) THEN BareLinkValid(href)
  ELSE IF Occurs(wiki_domain, href) /\ Occurs(WikiPath, href)
  THEN is_valid_wikipedia_link(LastPiece(href, WikiPath), wiki_domain)
  ELSE FALSE

\* the host of the page the links are taken from, and another host
SiteHost == <<"w", ".", "o", "r", "g">>
OtherHost == <<"x", ".", "o", "r", "g">>

\* what an href has in front of its path: nothing, or a scheme and a host
LinkBases ==
  {<< >>,
   <<"h", "t", "t", "p", "s", ":", "/", "/">> \o SiteHost,
   <<"h", "t", "t", "p", ":", "/", "/">> \o SiteHost,
   <<"/", "/">> \o SiteHost,
   <<"h", "t", "t", "p", "s", ":", "/", "/">> \o OtherHost}

\* article names, namespaced names, a name with a fragment, an empty name
LinkNames ==
  {
   <<"F", "o", "o">>,
   <<"C", "a", "t", "e", "g", "o", "r", "y", ":", "F", "o", "o">>,
   <<"U0424", "U0430", "U0439", "U043B", ":", "F", "o", "o">>,
   <<"F", "o", "o", "#", "s">>,
   <<"T", "a", "l", "k", ":", "F", "o", "o">>,
   <<"w", "i", "k", "i", "/", "F", "o", "o">>,
   <<>>
  }

\* paths of hrefs: /wiki/<name>, and paths outside /wiki/
LinkPaths ==
  {WikiPath \o name : name \in LinkNames} \cup
  {<<"/", "w", "/", "F", "o", "o">>, <<"#", "s">>, << >>}

\* the finder is idle; the classifier is about to be called on base + path
InitValidLink ==
  /\ InitFetcher
  /\ web = << >>
  /\ asked = << >>
  /\ callLog = << >>
  /\ NoSearch
  /\ fnpc = "_is_valid_wikipedia_link"
  /\ fnarg \in [base : LinkBases, path : LinkPaths, wiki_domain : {SiteHost}]
  /\ fnout = << >>

\* _is_valid_wikipedia_link(base + path, wiki_domain)
ValidLinkCall ==
  /\ fnpc = "_is_valid_wikipedia_link"
  /\ fnout = << >>
  /\ fnout' = <<is_valid_wikipedia_link(fnarg.base \o fnarg.path,
                                        fnarg.wiki_domain)>>
  /\ UNCHANGED <<fetcherVars, threadVars, logVars, driverVars, bfsVars, fnpc,
                 fnarg>>

\* _is_valid_wikipedia_link(path, wiki_domain): the bare link
ValidLinkBare ==
  /\ fnpc = "_is_valid_wikipedia_link"
  /\ Len(fnout) = 1
  /\ fnout' = Append(fnout, is_valid_wikipedia_link(fnarg.path,
                                                    fnarg.wiki_domain))
  /\ UNCHANGED <<fetcherVars, threadVars, logVars, driverVars, bfsVars, fnpc,
                 fnarg>>

NextValidLink ==
  \/ ValidLinkCall
  \/ ValidLinkBare

SpecValidLink == InitValidLink /\ [][NextValidLink]_vars

----------------------------------------------------------------------------
(* Properties of the fetcher *)

\* network requests made so far for URL u
Requests(u) == {i \in DOMAIN started : started[i].url = u}

\* completed calls of the sequential caller for URL u, in order
CallsFor(u) == SelectSeq(callLog, LAMBDA c : c.url = u)

\* URL u has been requested twice and both calls are over
AskedTwice(u) ==
  /\ Len(SelectSeq(asked, LAMBDA a : a = u)) = 2
  /\ Len(CallsFor(u)) = 2

\* C5 as stated: requesting the same URL twice through get_page_content
\* triggers exactly one network request.
C5_OneRequestForTwoCalls ==
  \A u \in FetchURLs : AskedTwice(u) => Cardinality(Requests(u)) = 1

\* C5 amended: requesting the same URL twice triggers exactly one network
\* request when the first request succeeds (the second call is a cache hit
\* returning the same text); when the first request fails nothing is cached
\* and the second call issues a second request.
C5_OneRequestAfterSuccess ==
  \A u \in FetchURLs :
    AskedTwice(u) =>
      LET c == CallsFor(u)
      IN /\ c[1].how \in {"ok", "fail"}
         /\ c[1].how = "ok" =>
              /\ Cardinality(Requests(u)) = 1
              /\ c[2].how = "hit"
              /\ c[2].ret = c[1].ret
         /\ c[1].how = "fail" =>
              /\ Cardinality(Requests(u)) = 2
              /\ c[2].how \in {"ok", "fail"}

C5_Witness ==
  \E u \in FetchURLs :
    /\ AskedTwice(u)
    /\ CallsFor(u)[1].how = "ok"
    /\ CallsFor(u)[2].how = "hit"

\* C6 as stated: the number of network requests started within any
\* one-second interval [w, w + 1s) never exceeds rate_limit.
C6_RateCap ==
  \A w \in 0..now :
    Cardinality({i \in DOMAIN started :
                   started[i].at >= w /\ started[i].at < w + Second})
      <= rate_limit

\* the URLs asked for so far are pairwise distinct
DistinctAsked ==
  \A i, j \in DOMAIN asked : asked[i] = asked[j] => i = j

\* C7: on a fresh fetcher, with back-to-back fetches of distinct uncached
\* URLs, no sleep happens before rate_limit requests have started (the first
\* rate_limit calls never wait), and once 2 * rate_limit calls are over at
\* least one second has passed since the first call read the clock.
C7_BurstThenWait ==
  DistinctAsked =>
    /\ \A i \in DOMAIN sleeps : sleeps[i] >= rate_limit
    /\ Len(callLog) >= 2 * rate_limit => now - stamps[1] >= Second

C7_Witness ==
  /\ DistinctAsked
  /\ rate_limit = 2
  /\ Len(callLog) = 2 * rate_limit
  /\ sleeps # << >>
  /\ \A i \in DOMAIN callLog : callLog[i].how \in {"ok", "fail"}

\* C8: when the network request fails, get_page_content returns None to
\* its caller without raising and leaves the cache as it was.
C8_FailureReturnsNone ==
  [][\A t \in Threads :
       (pc[t] = "response" /\ pc'[t] # "response" /\ how'[t] = "fail") =>
         /\ pc'[t] = "returned"
         /\ ret'[t] = NoneValue
         /\ cache' = cache
         /\ url[t] \notin DOMAIN cache']_vars

C8_Witness ==
  \E i \in DOMAIN callLog :
    /\ callLog[i].how = "fail"
    /\ callLog[i].ret = NoneValue
    /\ callLog[i].url \notin DOMAIN cache

\* positions of get_page_content inside the with block
InWith == {"rl_time", "rl_while", "rl_head", "rl_pop", "rl_len", "rl_oldest",
           "rl_sleep", "rl_append", "get", "response"}

Holders == {t \in Threads : pc[t] \in InWith}

\* C9: the slot is released on every exit path: the free slots are
\* rate_limit minus the threads inside the with block, so all of them are
\* free whenever no fetch is in progress, and never more than rate_limit
\* threads hold one.
C9_SlotsReleased ==
  /\ semaphore = rate_limit - Cardinality(Holders)
  /\ Cardinality(Holders) <= rate_limit
  /\ Holders = {} => semaphore = rate_limit

C9_Witness ==
  /\ \A t \in Threads : pc[t] = "idle"
  /\ \E i \in DOMAIN callLog : callLog[i].how = "fail"
  /\ \E i \in DOMAIN callLog : callLog[i].how = "ok"
  /\ semaphore = rate_limit

----------------------------------------------------------------------------
(* Properties of find_path and find_bidirectional_path *)

\* C1: find_path terminates: once called it eventually returns (a path or
\* None), whatever links the pages carry and whichever fetches fail.
C1_FindPathTerminates == (fpc = "init") ~> (fpc = "done")

\* pages the site is known to link from page p
Out(p) ==
  IF p \in DOMAIN web THEN {normalize_url(l) : l \in web[p].links} ELSE {}

\* pages within k hops of the start page
RECURSIVE Within(_)
Within(k) ==
  IF k = 0 THEN {start_url}
  ELSE Within(k - 1) \cup UNION {Out(p) : p \in Within(k - 1)}

\* a search over a cyclic site has come to its end
C1_Witness ==
  /\ fpc = "done"
  /\ fetches >= 2
  /\ \E p \in Within(1) \ {start_url} : start_url \in Out(p)

\* C2 as stated: every entry that is or has been in the queue, the seed
\* included, has len(path) <= max_depth.
C2_AllEntriesWithinDepth ==
  \A i \in DOMAIN enqueued : Len(enqueued[i].path) <= max_depth

\* C2 amended: every entry that is or has been in the queue has
\* len(path) <= max_depth, except the seed (start, [start]), whose path has
\* length 1 whatever max_depth is.
C2_EnqueuedWithinDepth ==
  /\ \A i \in DOMAIN queue : \E j \in DOMAIN enqueued : queue[i] = enqueued[j]
  /\ \A i \in DOMAIN enqueued :
       IF i = 1
       THEN enqueued[i] = [url |-> start_url, path |-> <<start_url>>]
       ELSE Len(enqueued[i].path) <= max_depth

C2_Witness ==
  /\ max_depth = 2
  /\ \E i \in DOMAIN enqueued : Len(enqueued[i].path) = max_depth

\* C3 as stated: find_path(X, X, d) returns [X] with zero fetches, the cache
\* and the rate window untouched.
C3_SelfPathIsArgument ==
  (fpc = "done" /\ args.start = args.target) =>
    /\ fresult = PathResult(<<args.start>>)
    /\ fetches = 0
    /\ Snapshot = atEntry

\* C3 amended: find_path(X, X, d) returns the single-element path
\* [normalize_url(X)] with zero fetches, the cache and the rate window
\* untouched.
C3_SelfPathIsNormalized ==
  (fpc = "done" /\ args.start = args.target) =>
    /\ fresult = PathResult(<<normalize_url(args.start)>>)
    /\ fetches = 0
    /\ Snapshot = atEntry

C3_Witness ==
  /\ fpc = "done"
  /\ args.start = args.target
  /\ args.start # normalize_url(args.start)
  /\ fresult.path = <<start_url>>

\* some page within k hops of the start carries a link to the target
TargetLinkedWithin(k) == \E p \in Within(k) : target_url \in Out(p)

\* C4: when start and target differ (as pages) and no page within max_depth
\* hops of the start links to the target, find_path returns None; and it
\* never returns an empty list.
C4_NoPathIsNone ==
  fpc = "done" =>
    /\ fresult # PathResult(<< >>)
    /\ (start_url # target_url /\ ~TargetLinkedWithin(max_depth)) =>
         fresult = NoneResult

C4_Witness ==
  /\ fpc = "done"
  /\ start_url # target_url
  /\ ~TargetLinkedWithin(max_depth)
  /\ fetches >= 2
  /\ fresult = NoneResult

\* C10: find_bidirectional_path runs find_path(url1, url2) and then
\* find_path(url2, url1), whatever the first returned; the second search
\* starts from its own seed with a visited set of its own, and the pair of
\* the two results is returned.
C10_BothSearchesRun ==
  /\ (bpc = "in_second" /\ fpc \in {"loop", "fetch", "links"}) =>
       /\ enqueued[1] = [url |-> normalize_url(url2),
                         path |-> <<normalize_url(url2)>>]
       /\ visited = {enqueued[i].url : i \in DOMAIN enqueued}
  /\ bpc = "done" =>
       /\ Len(searches) = 2
       /\ searches[1].start = url1 /\ searches[1].target = url2
       /\ searches[2].start = url2 /\ searches[2].target = url1
       /\ path1to2 = searches[1].result
       /\ path2to1 = searches[2].result
       /\ biResult = <<searches[1].result, searches[2].result>>

C10_Witness ==
  /\ bpc = "done"
  /\ Len(biResult[1].path) >= 3
  /\ biResult[2] = NoneResult
  /\ fetches >= 1
  /\ \E i \in DOMAIN started : started[i].url \notin DOMAIN cache

----------------------------------------------------------------------------
(* Properties of the helper methods *)

\* C11 as stated: normalize_url is idempotent for every input string,
\* malformed, relative or empty ones included:
\* normalize_url(normalize_url(u)) = normalize_url(u).
C11_NormalizeIdempotent ==
  Len(fnout) = 2 => fnout[2] = fnout[1]

\* a full URL of the site: scheme and host in front of a /wiki/ path
FullSiteURL ==
  /\ fnpc = "_is_valid_wikipedia_link"
  /\ fnarg.base # << >>
  /\ Occurs(SiteHost, fnarg.base)
  /\ StartsWith(fnarg.path, WikiPath)

\* C12 as stated: the classifier accepts a full URL whose host is the site
\* host and whose path contains /wiki/ exactly when the bare /wiki/... link
\* would be accepted (https://<siteHost>/wiki/Foo is accepted,
\* https://<siteHost>/wiki/Category:Foo is rejected).
C12_FullURLAsBareLink ==
  (FullSiteURL /\ Len(fnout) = 2) => fnout[1] = fnout[2]

----------------------------------------------------------------------------
(* Properties of the search: order, uniqueness, failures, the path *)

\* URLs whose request failed during the running search (the search thread
\* is back from get_page_content)
FailedNow ==
  {started[i].url : i \in (atEntry.started + 1)..Len(started)} \ DOMAIN cache

\* links of page p when its fetch succeeds
OutUp(p) == IF p \in FailedNow THEN {} ELSE Out(p)

\* pages within k hops of the start through pages whose fetch succeeds
RECURSIVE WithinUp(_)
WithinUp(k) ==
  IF k = 0 THEN {start_url}
  ELSE WithinUp(k - 1) \cup UNION {OutUp(p) : p \in WithinUp(k - 1)}

\* C13: frontier entries are dequeued in non-decreasing path length, and a
\* returned path is of minimal length: no chain of links from start to
\* target through pages whose fetch succeeds has fewer hops.
C13_ShortestPath ==
  /\ \A i, j \in DOMAIN dequeued :
       i < j => Len(dequeued[i].path) <= Len(dequeued[j].path)
  /\ (fpc = "done" /\ fresult.kind = "path") =>
       \A k \in 0..(Len(fresult.path) - 2) : target_url \notin WithinUp(k)

\* a two-hop path is returned while a longer route is still in the queue
C13_Witness ==
  /\ fpc = "done"
  /\ fresult.kind = "path"
  /\ Len(fresult.path) = 3
  /\ \E i \in DOMAIN queue :
       /\ Len(queue[i].path) = 3
       /\ target_url \in Out(queue[i].url)

\* network requests made by the running search
SearchRequests == (atEntry.started + 1)..Len(started)

\* C14: within one search no URL is enqueued twice, every enqueued URL is
\* in visited from the moment it is enqueued, and each URL is fetched at
\* most once.
C14_EnqueuedOnce ==
  fpc \in {"loop", "fetch", "links", "done"} =>
    /\ \A i, j \in DOMAIN enqueued :
         enqueued[i].url = enqueued[j].url => i = j
    /\ \A i \in DOMAIN enqueued : enqueued[i].url \in visited
    /\ \A i, j \in DOMAIN dequeued :
         dequeued[i].url = dequeued[j].url => i = j
    /\ fetches <= Len(dequeued)
    /\ \A i, j \in SearchRequests : started[i].url = started[j].url => i = j

\* the start page links to itself and to another page, both pages have
\* been fetched, and the search is over
C14_Witness ==
  /\ fpc = "done"
  /\ max_depth >= 2
  /\ start_url \in Out(start_url)
  /\ Len(enqueued) >= 2
  /\ Cardinality(SearchRequests) >= 2

\* find_path has the answer of get_page_content and there is no content
NoContent == fpc = "fetch" /\ pc[1] = "returned" /\ Falsy(ret[1])

\* C15: a fetch failure or empty content for a dequeued node does not
\* abort the search: the step leaves queue and visited as they are and the
\* loop goes on; a search that returns None has taken every entry from the
\* queue; and a target linked from a frontier entry whose fetch succeeds
\* is found.
C15_FailureIsLocal ==
  /\ [][NoContent =>
          /\ fpc' = "loop"
          /\ UNCHANGED <<queue, visited, enqueued, fresult>>]_vars
  /\ [](fpc = "done" =>
          /\ fresult = NoneResult => queue = << >> /\ dequeued = enqueued
          /\ (\E i \in DOMAIN enqueued :
                /\ Len(enqueued[i].path) <= max_depth
                /\ target_url \in OutUp(enqueued[i].url))
               => fresult.kind = "path")

\* a page linking to the target could not be fetched, and a path through
\* another page has been returned
C15_Witness ==
  /\ fpc = "done"
  /\ fresult.kind = "path"
  /\ \E u \in FailedNow : target_url \in Out(u)

\* C18: a path returned for start # target is a chain: it begins with the
\* normalized start and ends with the normalized target, every later
\* element is the normalized form of a link of the successfully fetched
\* page before it, and no URL occurs twice.
C18_PathIsChain ==
  (/\ fpc = "done"
   /\ fresult.kind = "path"
   /\ normalize_url(args.start) # normalize_url(args.target)) =>
    LET p == fresult.path
    IN /\ Len(p) >= 2
       /\ p[1] = normalize_url(args.start)
       /\ p[Len(p)] = normalize_url(args.target)
       /\ \A i \in 1..(Len(p) - 1) :
            /\ p[i] \in DOMAIN cache
            /\ \E l \in extract_wikipedia_links(cache[p[i]]) :
                 normalize_url(l) = p[i + 1]
       /\ \A i, j \in DOMAIN p : p[i] = p[j] => i = j

\* a two-hop path whose links are not written in normalized form
C18_Witness ==
  /\ fpc = "done"
  /\ fresult.kind = "path"
  /\ Len(fresult.path) = 3
  /\ \A i \in 1..2 :
       fresult.path[i + 1] \notin
         extract_wikipedia_links(cache[fresult.path[i]])

\* C19: when a chain of at most max_depth hops leads from start to target
\* and every page before the target fetches successfully, find_path returns
\* a path; a target linked only from pages whose path has max_depth elements
\* is still found.
C19_FoundWithinBound ==
  (/\ fpc = "done"
   /\ start_url # target_url
   /\ \E k \in 1..max_depth : target_url \in WithinUp(k)) =>
    fresult.kind = "path"

\* the target is max_depth hops away and the path to it has been returned
C19_Witness ==
  /\ fpc = "done"
  /\ fresult.kind = "path"
  /\ Len(fresult.path) = max_depth + 1
  /\ target_url \notin WithinUp(max_depth - 1)

\* C20: a returned path has at most max_depth hops, that is at most
\* max_depth + 1 URLs; with max_depth = 0 and distinct endpoints the seed is
\* dequeued and skipped, no fetch is made and None is returned.
C20_PathWithinDepth ==
  fpc = "done" =>
    /\ fresult.kind = "path" => Len(fresult.path) <= max_depth + 1
    /\ (max_depth = 0 /\ start_url # target_url) =>
         /\ fresult = NoneResult
         /\ dequeued = <<[url |-> start_url, path |-> <<start_url>>]>>
         /\ fetches = 0
         /\ Snapshot = atEntry

\* the second search with max_depth = 0 is over, the first having skipped
\* its seed as well
C20_Witness ==
  /\ fpc = "done"
  /\ bpc = "in_second"
  /\ max_depth = 0
  /\ start_url # target_url
  /\ Len(dequeued) = 1
  /\ started = << >>

----------------------------------------------------------------------------
(* Properties of concurrent callers *)

\* completed calls for URL u that fetched it and wrote the cache entry
CacheWrites(u) ==
  {i \in DOMAIN callLog : callLog[i].url = u /\ callLog[i].how = "ok"}

\* threads whose network request for URL u is under way
InFlight(u) == {t \in Threads : pc[t] = "response" /\ url[t] = u}

\* C16 as stated: when several threads call get_page_content for the same
\* uncached URL, at most one network request is issued for it (no two are
\* under way together) and its cache entry is written once, never
\* overwritten.
C16_OneFetchPerURL ==
  \A u \in SharedURLs :
    /\ Cardinality(InFlight(u)) <= 1
    /\ Cardinality(CacheWrites(u)) <= 1

\* positions of get_page_content inside _rate_limit_request
InRateLimit == {"rl_time", "rl_while", "rl_head", "rl_pop", "rl_len",
                "rl_oldest", "rl_sleep", "rl_append"}

\* C17 as stated: for any rate_limit >= 1 and any interleaving at most one
\* thread is inside _rate_limit_request at a time, so that no admission
\* decision is made on a window another thread is modifying.
C17_OneThreadInRateLimit ==
  Cardinality({t \in Threads : pc[t] \in InRateLimit}) <= 1

====
